---- MODULE Spec2Model ----
(***************************************************************************)
(* A model of the image viewer of src/example/main.py: the byte-budgeted   *)
(* ImageCache with its recency deque, the ImagePreloader with its worker   *)
(* pool, and the main loop's viewport state (index, modes, slideshow).     *)
(*                                                                         *)
(* Footprints are in scaled bytes, times in milliseconds.  Indices are     *)
(* 0-based as in the source; images[i] of the source is images[i + 1]      *)
(* here.  A call made by the foreground thread is one step; a worker's     *)
(* put is split at the statements that change the shared cache, so that    *)
(* the foreground can run between them.  pc = "crashed" is main ended by   *)
(* an exception nothing catches.                                           *)
(*                                                                         *)
(* The last part models the three threads of src/dippingbird.py (the GIF   *)
(* window, the key sender and main) around the flag should_exit and the    *)
(* event stop_event.                                                       *)
(***************************************************************************)
EXTENDS Integers, Sequences, FiniteSets, TLC

\* ------------------------------------------------------------------ bounds

\* Cap on the accounting counter current_memory in the sessions of direct
\* calls (it drifts upwards for ever once cache.cache.clear() has left it stale).
MemCap == 1200

\* The number of iterations of main's loop that are followed.
MaxFrames == 3

\* The clock pygame.time.get_ticks() is read in steps of TimeStep up to MaxTime.
TimeStep == 1000

MaxTime == 5000

\* The pan offsets stay within MaxPan of the origin.
MaxPan == 1

\* The key sender's clock is followed up to MaxSeconds.
MaxSeconds == 12

\* ------------------------------------------------------------- the universe

\* The image identifiers load_images() can return.
Paths == {"a", "b", "c"}

\* create_mosaic caches thumbnails under f"thumb_{img_path}".
ThumbKey(p) == "thumb_" \o p

Keys == Paths \cup {ThumbKey(p) : p \in Paths}

\* ImageCache.max_memory, scaled (the source's 500 MiB).
max_memory == 1000

\* What a failed load_image_to_surface returns.
None == [size |-> 0, variant |-> "None"]

\* A decoded pygame surface: its byte footprint (width * height * 4) and the
\* rendering variant it was decoded as.
Footprints == {200, 400, 600, 1200}

Surfaces == [size : Footprints \cup {100}, variant : {"full", "art", "thumb"}]

\* ImagePreloader(max_workers=2) and preload_images(num_ahead=2, num_behind=1).
max_workers == 2

num_ahead == 2

num_behind == 1

Workers == 1..max_workers

\* zoom = 1.0: the zoom factor is kept in hundredths.
ZoomUnit == 100

\* slideshow_delay = 3000 milliseconds.
slideshow_delay == 3000

\* The drawing of display_image when nothing has been drawn in this frame.
NoDraw == [surface |-> None, art_mode |-> FALSE]

VARIABLES
    \* ImageCache
    cache,            \* dict: key -> surface (a function on the cached keys)
    access_order,     \* deque of keys, least recently used first
    current_memory,   \* the accounting counter
    \* main's locals
    images,           \* the session's list of image paths
    current_index,
    running,
    slideshow_active,
    last_slide_time,
    art_mode,
    mosaic_mode,
    mode,             \* 'move' or 'copy', what the digit keys do
    zoom,             \* the zoom factor, in hundredths
    pan_x,
    pan_y,
    pc,               \* where main is in its loop
    \* ImagePreloader
    preload_queue,    \* the set of in-flight paths
    work_queue,       \* the executor's queue of submitted _preload_task calls
    wpc,              \* where each pool thread is in _preload_task
    wpath,            \* its path argument
    wsurface,         \* its decoded surface
    woldest,          \* put's local `oldest'
    \* the environment
    now,              \* pygame.time.get_ticks()
    bad,              \* the files load_image_to_surface cannot decode
    \* history
    touch_log,        \* keys touched by the direct calls, oldest touch first
    frames,           \* how many iterations of main's loop have started
    drawn,            \* what display_image blitted in this frame, and under which art_mode
    slide_on_at,      \* the time of the last activation of the slideshow
    \* dippingbird.py
    should_exit,      \* the global flag
    stop_event,       \* threading.Event: set or not
    gif_exists,       \* os.path.exists(GIF_PATH)
    gif_pc,           \* where play_dipping_bird_gif is
    current_frame,
    key_pc,           \* where send_keys_if_match is
    last_check,
    seconds,          \* time.time() - start_time, rounded
    sent,             \* what the last round of the key sender did
    main_pc           \* where dippingbird's main is

cacheVars == <<cache, access_order, current_memory>>

loopVars == <<images, current_index, running, slideshow_active,
              last_slide_time, art_mode, mosaic_mode>>

preVars == <<preload_queue, work_queue>>

workerVars == <<wpc, wpath, wsurface, woldest>>

envVars == <<now, bad>>

viewVars == <<mode, zoom, pan_x, pan_y>>

histVars == <<touch_log, frames, drawn, slide_on_at>>

birdVars == <<should_exit, stop_event, gif_exists, gif_pc, current_frame,
              key_pc, last_check, seconds, sent, main_pc>>

viewerVars == <<cacheVars, loopVars, viewVars, pc, preVars, workerVars, envVars, histVars>>

vars == <<viewerVars, birdVars>>

\* -------------------------------------------------------------- ImageCache

Range(s) == {s[i] : i \in 1..Len(s)}

\* deque.remove(x): drops the first occurrence of x.
RECURSIVE Remove(_, _)
Remove(s, x) ==
    IF s = <<>> THEN <<>>
    ELSE IF Head(s) = x THEN Tail(s)
    ELSE <<Head(s)>> \o Remove(Tail(s), x)

\* dict without one key.
Del(f, k) == [x \in (DOMAIN f) \ {k} |-> f[x]]

\* dict with f[k] = v.
Set(f, k, v) == [x \in (DOMAIN f) \cup {k} |-> IF x = k THEN v ELSE f[x]]

EmptyDict == [x \in {} |-> None]

_get_surface_size(surface) == surface.size

\* The three fields of an ImageCache, as one value, with the flag `raised'
\* for an exception leaving the method.
CacheState == [cache |-> cache, access_order |-> access_order,
               current_memory |-> current_memory, raised |-> FALSE]

Raise(c) == [c EXCEPT !.raised = TRUE]

\* A get that returns the hit without moving the key to the end.
get_no_touch(c, path) ==
    IF path \in DOMAIN c.cache
    THEN [st |-> c, result |-> c.cache[path]]
    ELSE [st |-> c, result |-> None]

\* ImageCache.get: on a hit, move the key to the end of access_order.
\* deque.remove raises ValueError when the key is not in the deque.
get(c, path) ==
    IF path \in DOMAIN c.cache
    THEN IF path \in Range(c.access_order)
         THEN [st |-> [c EXCEPT !.access_order = Append(Remove(@, path), path)],
               result |-> c.cache[path]]
         ELSE [st |-> Raise(c), result |-> None]
    ELSE [st |-> c, result |-> None]

\* The while condition of put's eviction loop.
MustEvict(c, surface_size) ==
    /\ c.current_memory + surface_size > max_memory
    /\ c.access_order # <<>>

\* oldest = self.access_order.popleft()
PopLeft(c) == [c EXCEPT !.access_order = Tail(@)]

\* if oldest in self.cache: current_memory -= size(cache[oldest]); del cache[oldest]
EvictOldest(c, oldest) ==
    IF oldest \in DOMAIN c.cache
    THEN [c EXCEPT !.current_memory = @ - _get_surface_size(c.cache[oldest]),
                   !.cache = Del(@, oldest)]
    ELSE c

\* The eviction loop of put, run to its end.
RECURSIVE EvictLoop(_, _)
EvictLoop(c, surface_size) ==
    IF MustEvict(c, surface_size)
    THEN EvictLoop(EvictOldest(PopLeft(c), Head(c.access_order)), surface_size)
    ELSE c

\* if path in self.cache: access_order.remove(path); current_memory -= old size
PutReplace(c, path) ==
    IF path \in DOMAIN c.cache
    THEN IF path \in Range(c.access_order)
         THEN [c EXCEPT !.access_order = Remove(@, path),
                        !.current_memory = @ - _get_surface_size(c.cache[path])]
         ELSE Raise(c)
    ELSE c

\* self.cache[path] = surface; self.current_memory += surface_size
PutStore(c, path, surface) ==
    [c EXCEPT !.cache = Set(@, path, surface),
              !.current_memory = @ + _get_surface_size(surface)]

\* self.access_order.append(path)
PutAppend(c, path) == [c EXCEPT !.access_order = Append(@, path)]

\* ImageCache.put, run to its end by one thread.
put(c, path, surface) ==
    IF surface = None THEN c
    ELSE LET c1 == EvictLoop(c, _get_surface_size(surface))
             c2 == PutReplace(c1, path)
         IN  IF c2.raised THEN c2
             ELSE PutAppend(PutStore(c2, path, surface), path)

\* cache.cache.clear() of the art-mode toggle: the dict alone is emptied.
clear(c) == [c EXCEPT !.cache = EmptyDict]

\* The sum of the footprints of the entries actually in the dict.
RECURSIVE FootprintOf(_, _)
FootprintOf(f, ks) ==
    IF ks = {} THEN 0
    ELSE LET k == CHOOSE x \in ks : TRUE
         IN  _get_surface_size(f[k]) + FootprintOf(f, ks \ {k})

Footprint(f) == FootprintOf(f, DOMAIN f)

\* Move-to-end of the history of touches.
Touch(log, k) == Append(SelectSeq(log, LAMBDA x : x # k), k)

\* RUN_EVERY = 5 seconds.
RUN_EVERY == 5

\* The number of frames of the GIF.
NumFrames == 2

\* dippingbird.py as its threads start, for a GIF file that exists or not.
BirdStart(exists) ==
    /\ should_exit = FALSE
    /\ stop_event = FALSE
    /\ gif_exists \in exists
    /\ gif_pc = "start"
    /\ current_frame = 0
    /\ key_pc = "test"
    /\ last_check = -RUN_EVERY
    /\ seconds = 0
    /\ sent = "nothing"
    /\ main_pc = "wait"

\* The viewer's sessions do not run dippingbird.py.
BirdIdle == BirdStart({TRUE})

\* ------------------------------------------------- the cache, called directly

InitWith(imgs, bads) ==
    /\ cache = EmptyDict
    /\ access_order = <<>>
    /\ current_memory = 0
    /\ images = imgs
    /\ current_index = 0
    /\ running = TRUE
    /\ slideshow_active = FALSE
    /\ last_slide_time = 0
    /\ art_mode = FALSE
    /\ mosaic_mode = FALSE
    /\ mode = "move"
    /\ zoom = ZoomUnit
    /\ pan_x = 0
    /\ pan_y = 0
    /\ pc = "display"
    /\ preload_queue = {}
    /\ work_queue = <<>>
    /\ wpc = [w \in Workers |-> "idle"]
    /\ wpath = [w \in Workers |-> "-"]
    /\ wsurface = [w \in Workers |-> None]
    /\ woldest = [w \in Workers |-> "-"]
    /\ now = 0
    /\ bad \in bads
    /\ touch_log = <<>>
    /\ frames = 0
    /\ drawn = NoDraw
    /\ slide_on_at = 0

\* A folder of three images, the last of which may fail to decode.
Init == InitWith(<<"a", "b", "c">>, {{}, {"c"}}) /\ BirdIdle

\* A folder of two images, the second of which may fail to decode.
InitPair == InitWith(<<"a", "b">>, {{}, {"b"}}) /\ BirdIdle

\* The direct calls leave the rest of the program alone.
RestUnchanged ==
    UNCHANGED <<loopVars, pc, preVars, workerVars, envVars, birdVars, viewVars, frames, drawn, slide_on_at>>

\* cache.get(path)
CacheGet(path) ==
    LET r == get(CacheState, path)
    IN  /\ ~r.st.raised
        /\ cache' = r.st.cache
        /\ access_order' = r.st.access_order
        /\ current_memory' = r.st.current_memory
        /\ touch_log' = IF path \in DOMAIN cache THEN Touch(touch_log, path)
                        ELSE touch_log
        /\ RestUnchanged

\* cache.put(path, surface)
CachePut(path, surface) ==
    LET c == put(CacheState, path, surface)
    IN  /\ current_memory + _get_surface_size(surface) <= MemCap
        /\ ~c.raised
        /\ cache' = c.cache
        /\ access_order' = c.access_order
        /\ current_memory' = c.current_memory
        /\ touch_log' = IF surface = None THEN touch_log
                        ELSE Touch(touch_log, path)
        /\ RestUnchanged

\* cache.cache.clear()
CacheClear ==
    LET c == clear(CacheState)
    IN  /\ cache' = c.cache
        /\ access_order' = c.access_order
        /\ current_memory' = c.current_memory
        /\ UNCHANGED touch_log
        /\ RestUnchanged

PutInputs == {None} \cup [size : Footprints, variant : {"full"}]

NextLRU ==
    \/ \E path \in Paths : CacheGet(path)
    \/ \E path \in Paths, surface \in PutInputs : CachePut(path, surface)

SpecLRU == Init /\ [][NextLRU]_vars

NextCache ==
    \/ \E path \in Paths : CacheGet(path)
    \/ \E path \in Paths, surface \in PutInputs : CachePut(path, surface)
    \/ CacheClear

SpecCache == Init /\ [][NextCache]_vars

\* ------------------------------------------------------------ decoding

\* The footprint of the full-size surface of an image file.
FullSize(image_path) == 400

\* The footprint of a thumbnail surface (one mosaic cell).
ThumbSize(image_path) == 100

\* load_image_to_surface(image_path, art_mode, thumbnail_size): the surfaces
\* it can return.  apply_random_effect picks one of six effects; rotate with
\* expand=True enlarges the image, the others keep its size.
load_image_to_surface(image_path, with_art, thumbnail) ==
    IF image_path \in bad THEN {None}
    ELSE IF thumbnail
         THEN {[size |-> ThumbSize(image_path), variant |-> "thumb"]}
    ELSE IF with_art
         THEN {[size |-> s, variant |-> "art"] :
                  s \in {FullSize(image_path), FullSize(image_path) + 200}}
    ELSE {[size |-> FullSize(image_path), variant |-> "full"]}

\* ------------------------------------------------------------ the main loop

SetCache(c) ==
    /\ cache' = c.cache
    /\ access_order' = c.access_order
    /\ current_memory' = c.current_memory

\* list.pop() without its index: the last element goes.
Pop_last(s, i) == SubSeq(s, 1, Len(s) - 1)

\* list.pop(i), i 0-based.
Pop(s, i) == SubSeq(s, 1, i) \o SubSeq(s, i + 2, Len(s))

\* display_image: get, on a miss decode and put; `ok' is its return value.
\* Every exception is caught and turned into False.
display_image(c, image_path, with_art, surface) ==
    LET r == get(c, image_path)
    IN  IF r.st.raised
        THEN [st |-> r.st, ok |-> FALSE, shown |-> None]
        ELSE IF r.result # None
        THEN [st |-> r.st, ok |-> TRUE, shown |-> r.result]
        ELSE IF surface = None
        THEN [st |-> r.st, ok |-> FALSE, shown |-> None]
        ELSE LET c2 == put(r.st, image_path, surface)
             IN  [st |-> c2, ok |-> ~c2.raised,
                  shown |-> IF c2.raised THEN None ELSE surface]

\* create_mosaic's loop over the images: thumbnails are cached under
\* thumb_<path>; an exception of get or put is not caught.
RECURSIVE create_mosaic(_, _)
create_mosaic(c, imgs) ==
    IF imgs = <<>> \/ c.raised THEN c
    ELSE LET r == get(c, ThumbKey(Head(imgs)))
             surface == CHOOSE s \in load_image_to_surface(Head(imgs), FALSE, TRUE) : TRUE
         IN  IF r.st.raised THEN r.st
             ELSE IF r.result # None THEN create_mosaic(r.st, Tail(imgs))
             ELSE create_mosaic(put(r.st, ThumbKey(Head(imgs)), surface), Tail(imgs))

\* The top of `while running': mosaic or single image, and the removal of an
\* image whose display failed.
Display ==
    /\ pc = "display"
    /\ frames < MaxFrames
    /\ frames' = frames + 1
    /\ UNCHANGED <<preVars, workerVars, envVars, birdVars, viewVars, touch_log, slide_on_at>>
    /\ UNCHANGED <<slideshow_active, last_slide_time, art_mode, mosaic_mode>>
    /\ IF mosaic_mode
       THEN LET c == create_mosaic(CacheState, images)
            IN  /\ SetCache(c)
                /\ pc' = IF c.raised THEN "crashed" ELSE "preload"
                /\ UNCHANGED <<images, current_index, running, drawn>>
       ELSE \E surface \in load_image_to_surface(images[current_index + 1], art_mode, FALSE) :
            LET d == display_image(CacheState, images[current_index + 1], art_mode, surface)
                rest == Pop(images, current_index)
            IN  /\ SetCache(d.st)
                /\ IF d.ok
                   THEN /\ drawn' = [surface |-> d.shown, art_mode |-> art_mode]
                        /\ pc' = "preload"
                        /\ UNCHANGED <<images, current_index, running>>
                   ELSE /\ images' = rest
                        /\ running' = (rest # <<>>)
                        /\ current_index' = IF rest = <<>> THEN current_index
                                            ELSE current_index % Len(rest)
                        /\ pc' = IF rest = <<>> THEN "done" ELSE "display"
                        /\ UNCHANGED drawn

\* A preload_images that does not look at preload_queue.
ShouldSubmit_always(path, queue) == TRUE

\* `path not in self.preload_queue'
ShouldSubmit(path, queue) == path \notin queue

\* The loop of preload_images over the paths to preload.
RECURSIVE PreloadLoop(_, _, _, _)
PreloadLoop(c, queue, submitted, paths) ==
    IF paths = <<>> \/ c.raised
    THEN [st |-> c, queue |-> queue, submitted |-> submitted]
    ELSE IF ~ShouldSubmit(Head(paths), queue)
    THEN PreloadLoop(c, queue, submitted, Tail(paths))
    ELSE LET r == get(c, Head(paths))
         IN  IF r.st.raised \/ r.result # None
             THEN PreloadLoop(r.st, queue, submitted, Tail(paths))
             ELSE PreloadLoop(r.st, queue \cup {Head(paths)},
                              Append(submitted, Head(paths)), Tail(paths))

\* preload_images(images, current_index, cache)
preload_images(imgs, index, c, queue) ==
    IF imgs = <<>>
    THEN [st |-> c, queue |-> queue, submitted |-> <<>>]
    ELSE LET ahead == [i \in 1..num_ahead |-> imgs[((index + i) % Len(imgs)) + 1]]
             behind == [i \in 1..num_behind |-> imgs[((index - i) % Len(imgs)) + 1]]
         IN  PreloadLoop(c, queue, <<>>, ahead \o behind)

\* preloader.preload_images(images, current_index, cache) in main; an
\* exception of cache.get is not caught.
Preload ==
    /\ pc = "preload"
    /\ LET r == preload_images(images, current_index, CacheState, preload_queue)
       IN  /\ SetCache(r.st)
           /\ preload_queue' = r.queue
           /\ work_queue' = work_queue \o r.submitted
           /\ pc' = IF r.st.raised THEN "crashed" ELSE "slideshow"
    /\ drawn' = NoDraw
    /\ UNCHANGED <<loopVars, workerVars, envVars, birdVars, viewVars, touch_log, frames, slide_on_at>>

\* `if slideshow_active: ...' in main.
Tick ==
    /\ pc = "slideshow"
    /\ pc' = "events"
    /\ IF slideshow_active /\ now - last_slide_time > slideshow_delay
       THEN /\ current_index' = (current_index + 1) % Len(images)
            /\ last_slide_time' = now
       ELSE UNCHANGED <<current_index, last_slide_time>>
    /\ UNCHANGED <<images, running, slideshow_active, art_mode, mosaic_mode>>
    /\ UNCHANGED <<cacheVars, preVars, workerVars, envVars, birdVars, viewVars, histVars>>

\* What an event handler leaves alone besides main's locals.
EventBase ==
    UNCHANGED <<preVars, workerVars, envVars, birdVars, touch_log, frames, drawn>>

EventRest == EventBase /\ UNCHANGED viewVars

EventFrame == UNCHANGED pc /\ EventRest

\* pygame.QUIT, or K_q
EventQuit ==
    /\ pc = "events"
    /\ running' = FALSE
    /\ UNCHANGED <<images, current_index, slideshow_active, last_slide_time,
                   art_mode, mosaic_mode, cacheVars, slide_on_at>>
    /\ EventFrame

\* A key that steps the other way.
Navigate_back(index, delta, n) == (index - delta) % n

\* (current_index + delta) % len(images); Python's % takes the sign of the
\* divisor, as TLA+'s does.
Navigate(index, delta, n) == (index + delta) % n

\* K_RIGHT (the modulo raises ZeroDivisionError on an empty list)
EventRight ==
    /\ pc = "events"
    /\ IF images = <<>>
       THEN pc' = "crashed" /\ UNCHANGED current_index
       ELSE pc' = pc /\ current_index' = Navigate(current_index, 1, Len(images))
    /\ UNCHANGED <<images, running, slideshow_active, last_slide_time,
                   art_mode, mosaic_mode, cacheVars, slide_on_at>>
    /\ EventRest

\* K_LEFT
EventLeft ==
    /\ pc = "events"
    /\ IF images = <<>>
       THEN pc' = "crashed" /\ UNCHANGED current_index
       ELSE pc' = pc /\ current_index' = Navigate(current_index, -1, Len(images))
    /\ UNCHANGED <<images, running, slideshow_active, last_slide_time,
                   art_mode, mosaic_mode, cacheVars, slide_on_at>>
    /\ EventRest

\* K_m
EventMosaic ==
    /\ pc = "events"
    /\ mosaic_mode' = ~mosaic_mode
    /\ UNCHANGED <<images, current_index, running, slideshow_active,
                   last_slide_time, art_mode, cacheVars, slide_on_at>>
    /\ EventFrame

\* K_a
EventArt ==
    /\ pc = "events"
    /\ art_mode' = ~art_mode
    /\ SetCache(clear(CacheState))
    /\ UNCHANGED <<images, current_index, running, slideshow_active,
                   last_slide_time, mosaic_mode, slide_on_at>>
    /\ EventFrame

\* K_SPACE
EventSpace ==
    /\ pc = "events"
    /\ slideshow_active' = ~slideshow_active
    /\ slide_on_at' = IF ~slideshow_active THEN now ELSE slide_on_at
    /\ UNCHANGED <<images, current_index, running, last_slide_time,
                   art_mode, mosaic_mode, cacheVars>>
    /\ EventFrame

\* images.pop(current_index); if not images: running = False
\* else: current_index %= len(images)
RemoveCurrent ==
    /\ images' = Pop(images, current_index)
    /\ IF images' = <<>>
       THEN running' = FALSE /\ UNCHANGED current_index
       ELSE current_index' = current_index % Len(images') /\ UNCHANGED running

\* K_DELETE: os.remove(images[current_index]) and the removal from the list.
\* On an empty list images[current_index] raises IndexError, which nothing
\* catches.
EventDelete ==
    /\ pc = "events"
    /\ IF images = <<>>
       THEN pc' = "crashed" /\ UNCHANGED <<images, current_index, running>>
       ELSE pc' = pc /\ RemoveCurrent
    /\ UNCHANGED <<slideshow_active, last_slide_time, art_mode, mosaic_mode,
                   cacheVars, slide_on_at>>
    /\ EventRest

\* K_1 .. K_9: the destination is built from images[current_index] (IndexError
\* on an empty list); move_or_copy_image handles its own errors; the list
\* changes in 'move' mode only.  The digit chooses the subfolder and nothing
\* else.
EventMove ==
    /\ pc = "events"
    /\ IF images = <<>>
       THEN pc' = "crashed" /\ UNCHANGED <<images, current_index, running>>
       ELSE /\ pc' = pc
            /\ IF mode = "move"
               THEN RemoveCurrent
               ELSE UNCHANGED <<images, current_index, running>>
    /\ UNCHANGED <<slideshow_active, last_slide_time, art_mode, mosaic_mode,
                   cacheVars, slide_on_at>>
    /\ EventRest

\* K_CAPSLOCK
EventCapsLock ==
    /\ pc = "events"
    /\ mode' = IF mode = "move" THEN "copy" ELSE "move"
    /\ UNCHANGED <<zoom, pan_x, pan_y, loopVars, cacheVars, slide_on_at>>
    /\ UNCHANGED pc /\ EventBase

Min(x, y) == IF x < y THEN x ELSE y

Max(x, y) == IF x > y THEN x ELSE y

\* z * 1.1 and z / 1.1 on hundredths, rounded to the nearest hundredth.
Times11(z) == (z * 11 + 5) \div 10

Over11(z) == (z * 10 + 5) \div 11

\* A wheel that multiplies without the upper limit.
ZoomIn_unclamped(z) == Times11(z)

\* zoom = min(4.0, zoom * 1.1)
ZoomIn(z) == Min(4 * ZoomUnit, Times11(z))

\* zoom = max(0.1, zoom / 1.1)
ZoomOut(z) == Max(ZoomUnit \div 10, Over11(z))

\* MOUSEBUTTONDOWN, button 4
EventWheelUp ==
    /\ pc = "events"
    /\ zoom' = ZoomIn(zoom)
    /\ UNCHANGED <<mode, pan_x, pan_y, loopVars, cacheVars, slide_on_at>>
    /\ UNCHANGED pc /\ EventBase

\* MOUSEBUTTONDOWN, button 5
EventWheelDown ==
    /\ pc = "events"
    /\ zoom' = ZoomOut(zoom)
    /\ UNCHANGED <<mode, pan_x, pan_y, loopVars, cacheVars, slide_on_at>>
    /\ UNCHANGED pc /\ EventBase

\* MOUSEMOTION with the left button held: pan_x += rel[0]; pan_y += rel[1]
EventMotion ==
    /\ pc = "events"
    /\ \E rel \in (-1..1) \X (-1..1) :
          /\ rel # <<0, 0>>
          /\ pan_x + rel[1] \in -MaxPan..MaxPan
          /\ pan_y + rel[2] \in -MaxPan..MaxPan
          /\ pan_x' = pan_x + rel[1]
          /\ pan_y' = pan_y + rel[2]
    /\ UNCHANGED <<mode, zoom, loopVars, cacheVars, slide_on_at>>
    /\ UNCHANGED pc /\ EventBase

\* K_r
EventReset ==
    /\ pc = "events"
    /\ zoom' = ZoomUnit
    /\ pan_x' = 0
    /\ pan_y' = 0
    /\ UNCHANGED <<mode, loopVars, cacheVars, slide_on_at>>
    /\ UNCHANGED pc /\ EventBase

\* The end of `for event in pygame.event.get()', and the loop test.
EndEvents ==
    /\ pc = "events"
    /\ pc' = IF running THEN "display" ELSE "done"
    /\ UNCHANGED <<loopVars, cacheVars, preVars, workerVars, envVars, birdVars, viewVars, histVars>>

\* Time passes.
Advance ==
    /\ now + TimeStep <= MaxTime
    /\ now' = now + TimeStep
    /\ UNCHANGED <<loopVars, pc, cacheVars, preVars, workerVars, bad, birdVars, viewVars, histVars>>

\* ------------------------------------------------------- the worker threads

\* A task that drops what it decoded: `if surface:' never holds.
WorkerDecode_discard(w) ==
    /\ wpc[w] = "idle"
    /\ work_queue # <<>>
    /\ wpath' = [wpath EXCEPT ![w] = Head(work_queue)]
    /\ work_queue' = Tail(work_queue)
    /\ \E surface \in load_image_to_surface(Head(work_queue), FALSE, FALSE) :
          /\ wsurface' = [wsurface EXCEPT ![w] = surface]
          /\ wpc' = [wpc EXCEPT ![w] = "finally"]
    /\ UNCHANGED <<cacheVars, loopVars, pc, preload_queue, woldest,
                   envVars, birdVars, viewVars, histVars>>

\* A task without the `if surface:' test: put is entered with whatever the
\* decode returned.
WorkerDecode_untested(w) ==
    /\ wpc[w] = "idle"
    /\ work_queue # <<>>
    /\ wpath' = [wpath EXCEPT ![w] = Head(work_queue)]
    /\ work_queue' = Tail(work_queue)
    /\ \E surface \in load_image_to_surface(Head(work_queue), FALSE, FALSE) :
          /\ wsurface' = [wsurface EXCEPT ![w] = surface]
          /\ wpc' = [wpc EXCEPT ![w] = "loop"]
    /\ UNCHANGED <<cacheVars, loopVars, pc, preload_queue, woldest,
                   envVars, birdVars, viewVars, histVars>>

\* A pool thread takes the next submitted task and decodes, touching nothing
\* shared: surface = load_image_to_surface(path); if surface: cache.put(...)
WorkerDecode(w) ==
    /\ wpc[w] = "idle"
    /\ work_queue # <<>>
    /\ wpath' = [wpath EXCEPT ![w] = Head(work_queue)]
    /\ work_queue' = Tail(work_queue)
    /\ \E surface \in load_image_to_surface(Head(work_queue), FALSE, FALSE) :
          /\ wsurface' = [wsurface EXCEPT ![w] = surface]
          /\ wpc' = [wpc EXCEPT ![w] = IF surface = None THEN "finally" ELSE "loop"]
    /\ UNCHANGED <<cacheVars, loopVars, pc, preload_queue, woldest,
                   envVars, birdVars, viewVars, histVars>>

\* put: the while test and `oldest = self.access_order.popleft()'
WorkerLoop(w) ==
    /\ wpc[w] = "loop"
    /\ IF MustEvict(CacheState, _get_surface_size(wsurface[w]))
       THEN /\ woldest' = [woldest EXCEPT ![w] = Head(access_order)]
            /\ SetCache(PopLeft(CacheState))
            /\ wpc' = [wpc EXCEPT ![w] = "evict"]
       ELSE /\ wpc' = [wpc EXCEPT ![w] = "replace"]
            /\ UNCHANGED <<cacheVars, woldest>>
    /\ UNCHANGED <<loopVars, pc, preVars, wpath, wsurface, envVars, birdVars, viewVars, histVars>>

\* put: `if oldest in self.cache: ...; del self.cache[oldest]'
WorkerEvict(w) ==
    /\ wpc[w] = "evict"
    /\ SetCache(EvictOldest(CacheState, woldest[w]))
    /\ woldest' = [woldest EXCEPT ![w] = "-"]
    /\ wpc' = [wpc EXCEPT ![w] = "loop"]
    /\ UNCHANGED <<loopVars, pc, preVars, wpath, wsurface, envVars, birdVars, viewVars, histVars>>

\* put: `if path in self.cache: self.access_order.remove(path); ...'
WorkerReplace(w) ==
    /\ wpc[w] = "replace"
    /\ LET c == PutReplace(CacheState, wpath[w])
       IN  /\ SetCache(c)
           /\ wpc' = [wpc EXCEPT ![w] = IF c.raised THEN "finally" ELSE "store"]
    /\ UNCHANGED <<loopVars, pc, preVars, wpath, wsurface, woldest, envVars, birdVars, viewVars, histVars>>

\* put: `self.cache[path] = surface; self.current_memory += surface_size'
WorkerStore(w) ==
    /\ wpc[w] = "store"
    /\ SetCache(PutStore(CacheState, wpath[w], wsurface[w]))
    /\ wpc' = [wpc EXCEPT ![w] = "append"]
    /\ UNCHANGED <<loopVars, pc, preVars, wpath, wsurface, woldest, envVars, birdVars, viewVars, histVars>>

\* put: `self.access_order.append(path)'
WorkerAppend(w) ==
    /\ wpc[w] = "append"
    /\ SetCache(PutAppend(CacheState, wpath[w]))
    /\ wpc' = [wpc EXCEPT ![w] = "finally"]
    /\ UNCHANGED <<loopVars, pc, preVars, wpath, wsurface, woldest, envVars, birdVars, viewVars, histVars>>

\* A task whose discard sits inside `if surface:' instead of `finally:'.
WorkerFinally_on_success(w) ==
    /\ wpc[w] = "finally"
    /\ preload_queue' = IF wsurface[w] = None THEN preload_queue
                        ELSE preload_queue \ {wpath[w]}
    /\ wpc' = [wpc EXCEPT ![w] = "idle"]
    /\ wpath' = [wpath EXCEPT ![w] = "-"]
    /\ wsurface' = [wsurface EXCEPT ![w] = None]
    /\ UNCHANGED <<cacheVars, loopVars, pc, work_queue, woldest, envVars, birdVars, viewVars, histVars>>

\* finally: self.preload_queue.discard(path); the task ends.
WorkerFinally(w) ==
    /\ wpc[w] = "finally"
    /\ preload_queue' = preload_queue \ {wpath[w]}
    /\ wpc' = [wpc EXCEPT ![w] = "idle"]
    /\ wpath' = [wpath EXCEPT ![w] = "-"]
    /\ wsurface' = [wsurface EXCEPT ![w] = None]
    /\ UNCHANGED <<cacheVars, loopVars, pc, work_queue, woldest, envVars, birdVars, viewVars, histVars>>

WorkerStep(w) ==
    \/ WorkerDecode(w)
    \/ WorkerLoop(w)
    \/ WorkerEvict(w)
    \/ WorkerReplace(w)
    \/ WorkerStore(w)
    \/ WorkerAppend(w)
    \/ WorkerFinally(w)

\* ------------------------------------------------------- the specifications

\* The foreground loop with navigation and the worker pool.
NextNav ==
    \/ Display
    \/ Preload
    \/ Tick
    \/ EventRight
    \/ EventLeft
    \/ EndEvents
    \/ \E w \in Workers : WorkerStep(w)

SpecNav == Init /\ [][NextNav]_vars

\* The same with the art-mode toggle, on a folder of two images.
NextPrefetch ==
    \/ Display
    \/ Preload
    \/ Tick
    \/ EventRight
    \/ EventLeft
    \/ EventArt
    \/ EndEvents
    \/ \E w \in Workers : WorkerStep(w)

SpecPrefetch == InitPair /\ [][NextPrefetch]_vars

\* Navigation and the worker pool on a folder of two images.  The pool's
\* threads are scheduled by the operating system: a thread that can take a
\* step eventually takes it.
SpecNavFair ==
    /\ InitPair
    /\ [][NextNav]_vars
    /\ \A w \in Workers : WF_vars(WorkerStep(w))

\* The viewer left alone on a folder of three images: the loop redraws and
\* prefetches, the pool threads run, no input arrives.
NextIdle ==
    \/ Display
    \/ Preload
    \/ Tick
    \/ EndEvents
    \/ \E w \in Workers : WorkerStep(w)

SpecIdleFair ==
    /\ Init
    /\ [][NextIdle]_vars
    /\ \A w \in Workers : WF_vars(WorkerStep(w))

\* The foreground loop alone, with its modes and the clock.
NextViewer ==
    \/ Display
    \/ Preload
    \/ Tick
    \/ EventQuit
    \/ EventRight
    \/ EventLeft
    \/ EventMosaic
    \/ EventArt
    \/ EventSpace
    \/ EndEvents
    \/ Advance

SpecViewer == Init /\ [][NextViewer]_vars

\* The foreground loop alone with the keys that change the list.
NextEdit ==
    \/ Display
    \/ Preload
    \/ Tick
    \/ EventQuit
    \/ EventRight
    \/ EventLeft
    \/ EventMosaic
    \/ EventDelete
    \/ EventMove
    \/ EventCapsLock
    \/ EndEvents

SpecEdit == Init /\ [][NextEdit]_vars

\* Navigation, Delete and the worker pool on a folder of two images.
NextSession ==
    \/ Display
    \/ Preload
    \/ Tick
    \/ EventRight
    \/ EventDelete
    \/ EndEvents
    \/ \E w \in Workers : WorkerStep(w)

SpecSession == InitPair /\ [][NextSession]_vars

\* The foreground loop alone with the mouse and the keys that change the view.
NextView ==
    \/ Display
    \/ Preload
    \/ Tick
    \/ EventMosaic
    \/ EventWheelUp
    \/ EventWheelDown
    \/ EventMotion
    \/ EventReset
    \/ EndEvents

SpecView == InitPair /\ [][NextView]_vars

\* ------------------------------------------------------------ dippingbird.py

\* What a step of the GIF thread leaves alone.
GifRest == UNCHANGED <<viewerVars, gif_exists, key_pc, last_check, seconds, sent, main_pc>>

\* play_dipping_bird_gif up to its loop: `if not os.path.exists(GIF_PATH):
\* ...; stop_event.set(); return'
GifOpen ==
    /\ gif_pc = "start"
    /\ IF gif_exists
       THEN gif_pc' = "test" /\ UNCHANGED stop_event
       ELSE gif_pc' = "ended" /\ stop_event' = TRUE
    /\ UNCHANGED <<should_exit, current_frame>>
    /\ GifRest

\* `while running and not should_exit:' (running is never made false), and
\* pygame.quit() after the loop.
GifTest ==
    /\ gif_pc = "test"
    /\ gif_pc' = IF should_exit THEN "ended" ELSE "body"
    /\ UNCHANGED <<should_exit, stop_event, current_frame>>
    /\ GifRest

\* One round of the loop: the events (QUIT sets should_exit, then stop_event),
\* the drawing, and the step to the next frame once its duration has passed.
GifBody ==
    /\ gif_pc = "body"
    /\ gif_pc' = "test"
    /\ \E quit \in BOOLEAN :
          IF quit THEN should_exit' = TRUE /\ stop_event' = TRUE
          ELSE UNCHANGED <<should_exit, stop_event>>
    /\ \E due \in BOOLEAN :
          current_frame' = IF due THEN (current_frame + 1) % NumFrames
                           ELSE current_frame
    /\ GifRest

GifStep == GifOpen \/ GifTest \/ GifBody

\* What a step of the key sender leaves alone.
KeyRest == UNCHANGED <<viewerVars, should_exit, stop_event, gif_exists, gif_pc,
                       current_frame, main_pc>>

\* `while not should_exit:' in send_keys_if_match
KeyTest ==
    /\ key_pc = "test"
    /\ key_pc' = IF should_exit THEN "ended" ELSE "body"
    /\ UNCHANGED <<last_check, seconds, sent>>
    /\ KeyRest

\* One round of the key sender.  When a check is due it connects to the
\* window and sends a line; an exception (no such window) is caught and
\* followed by time.sleep(60), a round without exception by time.sleep(1).
KeyBody ==
    /\ key_pc = "body"
    /\ key_pc' = "test"
    /\ IF seconds > last_check + RUN_EVERY
       THEN \E outcome \in {"y", "message", "error"} :
               /\ sent' = outcome
               /\ IF outcome = "error"
                  THEN /\ seconds' = Min(seconds + 60, MaxSeconds)
                       /\ UNCHANGED last_check
                  ELSE /\ seconds' = Min(seconds + 1, MaxSeconds)
                       /\ last_check' = seconds
       ELSE /\ sent' = "nothing"
            /\ seconds' = Min(seconds + 1, MaxSeconds)
            /\ UNCHANGED last_check
    /\ KeyRest

KeyStep == KeyTest \/ KeyBody

\* What a step of main leaves alone.
MainRest == UNCHANGED <<viewerVars, should_exit, stop_event, gif_exists, gif_pc,
                        current_frame, key_pc, last_check, seconds, sent>>

\* `while not should_exit: time.sleep(0.1)' is left.
MainWait ==
    /\ main_pc = "wait"
    /\ should_exit
    /\ main_pc' = "join_gif"
    /\ MainRest

\* gif_thread.join()
MainJoinGif ==
    /\ main_pc = "join_gif"
    /\ gif_pc = "ended"
    /\ main_pc' = "join_key"
    /\ MainRest

\* key_thread.join()
MainJoinKey ==
    /\ main_pc = "join_key"
    /\ key_pc = "ended"
    /\ main_pc' = "done"
    /\ MainRest

MainStep == MainWait \/ MainJoinGif \/ MainJoinKey

\* CTRL+C while main waits: handle_sigint sets both signals and leaves with
\* sys.exit(0); the two daemon threads end with the process.
Sigint ==
    /\ main_pc = "wait"
    /\ should_exit' = TRUE
    /\ stop_event' = TRUE
    /\ main_pc' = "exit"
    /\ gif_pc' = "ended"
    /\ key_pc' = "ended"
    /\ UNCHANGED <<viewerVars, gif_exists, current_frame, last_check, seconds, sent>>

NextBird ==
    \/ GifStep
    \/ KeyStep
    \/ MainStep
    \/ Sigint

\* The viewer is not running; dippingbird.py starts with or without its GIF.
InitBird ==
    /\ InitWith(<<"a", "b", "c">>, {{}})
    /\ BirdStart(BOOLEAN)

\* The three threads are scheduled by the operating system: each one that
\* can take a step eventually takes it.
SpecBird ==
    /\ InitBird
    /\ [][NextBird]_vars
    /\ WF_vars(GifStep)
    /\ WF_vars(KeyStep)
    /\ WF_vars(MainStep)

\* ------------------------------------------------------------------ claims

\* C1: after every put and get returns, the sum of the footprints of all
\* entries in the cache mapping is at most max_memory.
C1_FootprintWithinBudget == Footprint(cache) <= max_memory

\* C2: a put whose image footprint is strictly greater than max_memory is
\* rejected: mapping, recency order and current_memory are the same after the
\* call as before it, and a following get of the key returns absent.
C2_OversizedPutRejected ==
    [][\A path \in Paths, surface \in PutInputs :
          (CachePut(path, surface) /\ _get_surface_size(surface) > max_memory)
          => /\ UNCHANGED cacheVars
             /\ (get(CacheState, path).result)' = None]_vars

\* C3: in every reachable state of a single-threaded session of get, put and
\* the art-mode toggle's clear, the keys of the cache mapping are exactly the
\* keys of access_order.
C3_SameKeySet == DOMAIN cache = Range(access_order)

\* The cached keys, least recently touched first (from the history of touches).
LRUOrder == SelectSeq(touch_log, LAMBDA k : k \in DOMAIN cache)

RECURSIVE SumSizes(_, _)
SumSizes(f, s) ==
    IF s = <<>> THEN 0 ELSE _get_surface_size(f[Head(s)]) + SumSizes(f, Tail(s))

\* How many evictions make the current footprint plus the new one fit: the
\* fewest, or all of the entries when nothing fits.
NeededEvictions(surface_size) ==
    LET fits(n) == Footprint(cache) - SumSizes(cache, SubSeq(LRUOrder, 1, n))
                       + surface_size <= max_memory
        ns == {n \in 0..Len(LRUOrder) : fits(n)}
    IN  IF ns = {} THEN Len(LRUOrder)
        ELSE CHOOSE n \in ns : \A m \in ns : n <= m

C5_ConsistentPairObserved ==
    pc \in {"display", "preload"} => DOMAIN cache = Range(access_order)

\* The number of occurrences of x in the sequence s.
Count(s, x) == Cardinality({i \in 1..Len(s) : s[i] = x})

\* The queued or running _preload_task calls for a path.
Outstanding(path) ==
    Count(work_queue, path)
        + Cardinality({w \in Workers : wpc[w] # "idle" /\ wpath[w] = path})

\* C6: at any time at most one prefetch task per key is queued or running,
\* and a preload_images call submits no task for a key that is already in
\* preload_queue.
C6_OneTaskPerKey ==
    /\ [](\A path \in Paths : Outstanding(path) <= 1)
    /\ [][\A path \in preload_queue :
             Count(work_queue', path) <= Count(work_queue, path)]_vars

\* C6 witness: the first preload_images call on <<a, b>> at index 0 has named
\* b twice (ahead 1, ahead 2 is a, behind 1) and submitted it once.
C6_Witness ==
    /\ pc = "slideshow"
    /\ frames = 1
    /\ images = <<"a", "b">>
    /\ current_index = 0
    /\ preload_queue = {"b"}
    /\ work_queue = <<"b">>

\* C7: a key leaves preload_queue only in the step that ends its worker task
\* (after the decode failed or put was called), it is in preload_queue
\* exactly while its task is queued or running, and under worker fairness
\* every in-flight key is eventually removed.
C7_RemovedOnceWhenTaskEnds ==
    /\ [](\A path \in Paths : path \in preload_queue <=> Outstanding(path) = 1)
    /\ [][\A path \in preload_queue :
             path \notin preload_queue'
             => \E w \in Workers : /\ wpath[w] = path
                                   /\ wpc[w] = "finally"
                                   /\ wpc'[w] = "idle"]_vars
    /\ \A path \in Paths : (path \in preload_queue) ~> (path \notin preload_queue)

\* C7 witness: in the first frame (which displays a alone) the prefetch of b
\* has been submitted, has put its surface and has removed b from the set.
C7_Witness ==
    /\ frames = 1
    /\ "b" \notin preload_queue
    /\ "b" \in DOMAIN cache
    /\ "b" \in Range(access_order)
    /\ \A w \in Workers : wpc[w] = "idle"
    /\ work_queue = <<>>

\* C8: whenever display_image draws while art_mode is on, the surface drawn
\* was decoded with the art effect, and while art_mode is off it was decoded
\* without it.
C8_DrawnVariantMatchesArtMode ==
    drawn.surface # None
    => drawn.surface.variant = IF drawn.art_mode THEN "art" ELSE "full"

\* C9: with mosaic_mode on, the slideshow step of a frame never changes
\* current_index.
C9_NoAdvanceInMosaic ==
    [][(pc = "slideshow" /\ mosaic_mode) => current_index' = current_index]_vars

\* C10: after the slideshow is activated at time t, no auto-advance of
\* current_index happens before t + slideshow_delay.
C10_NoAdvanceBeforeDeadline ==
    [][(pc = "slideshow" /\ pc' = "events" /\ current_index' # current_index)
          => now >= slide_on_at + slideshow_delay]_vars

\* C11: no sequence of input events makes the viewer raise an unhandled error:
\* main never dies of an exception, and once the list is empty the remaining
\* events of the batch are not applied to it.
C11_NoUnhandledError == pc # "crashed"

\* C12: RemoveCurrent (Delete, or a digit key in 'move' mode) removes exactly
\* the image at current_index and keeps the order of the others; when the
\* list becomes empty running becomes false, otherwise current_index is taken
\* modulo the new length and stays in 0 .. len - 1; on a list of one image
\* the session always ends.
C12_RemoveCurrent ==
    [][(images # <<>> /\ (EventDelete \/ (EventMove /\ mode = "move"))) =>
          /\ Len(images') = Len(images) - 1
          /\ \A i \in 1..Len(images') :
                images'[i] = IF i <= current_index THEN images[i] ELSE images[i + 1]
          /\ IF images' = <<>>
             THEN ~running'
             ELSE /\ running' = running
                  /\ current_index' \in 0..(Len(images') - 1)
                  /\ current_index' =
                        IF current_index = Len(images') THEN 0 ELSE current_index
          /\ (Len(images) = 1 => ~running')]_vars

\* The last of three decodable images was displayed and then removed by a
\* key, and the index wrapped to the front.
C12_Witness ==
    /\ pc = "events"
    /\ bad = {}
    /\ images = <<"a", "b">>
    /\ current_index = 0
    /\ "c" \in DOMAIN cache

\* C13: Navigate is valid in single-image mode only: while mosaic_mode is true
\* a Right or Left key leaves current_index unchanged.
C13_NoNavigateInMosaic ==
    [][(mosaic_mode /\ (EventRight \/ EventLeft)) =>
          current_index' = current_index]_vars

\* C14: ToggleMosaicMode flips mosaic_mode, and on entering mosaic mode the
\* view is reset: zoom = 1.0 and pan = (0, 0).
C14_MosaicEntryResetsView ==
    [][EventMosaic =>
          /\ mosaic_mode' = ~mosaic_mode
          /\ (mosaic_mode' => zoom' = ZoomUnit /\ pan_x' = 0 /\ pan_y' = 0)]_vars

\* C17: on a list of N images Navigate(+1) sets current_index to
\* (current_index + 1) mod N and Navigate(-1) to (current_index - 1) mod N:
\* forward from the last index wraps to 0, backward from 0 wraps to N - 1.
C17_NavigateWraps ==
    /\ [][(images # <<>> /\ EventRight) =>
             current_index' = IF current_index = Len(images) - 1 THEN 0
                              ELSE current_index + 1]_vars
    /\ [][(images # <<>> /\ EventLeft) =>
             current_index' = IF current_index = 0 THEN Len(images) - 1
                              ELSE current_index - 1]_vars

\* Left was pressed at index 0 of three images: the index is 2 in the first
\* frame, before the slideshow or a removal could have moved it.
C17_Witness ==
    /\ pc = "events"
    /\ frames = 1
    /\ images = <<"a", "b", "c">>
    /\ current_index = 2

\* C18: starting from zoom 1.0, after any sequence of zoom-in steps (x 1.1),
\* zoom-out steps (/ 1.1) and resets, zoom stays within [0.1, 4.0].
C18_ZoomWithinLimits ==
    /\ 10 * zoom >= ZoomUnit
    /\ zoom <= 4 * ZoomUnit

\* The wheel was turned up, within the first event batch, until zoom reached
\* the upper limit.
C18_Witness ==
    /\ pc = "events"
    /\ zoom = 4 * ZoomUnit
    /\ pan_x = 0 /\ pan_y = 0
    /\ ~mosaic_mode
    /\ frames = 1

\* C15: after clear (the art-mode toggle) a get of any previously cached key
\* returns absent, and a following put of such a key succeeds normally: the
\* key is present, get returns the new image, and the entry is stored once
\* (one entry in the mapping and one position in the recency order).  In a
\* session of direct calls the keys that clear dropped are those left in
\* access_order without an entry in the mapping.
C15_PutAfterClear ==
    /\ [][CacheClear =>
             \A k \in DOMAIN cache : (get(CacheState, k).result)' = None]_vars
    /\ [][\A path \in Paths, surface \in PutInputs \ {None} :
             (/\ CachePut(path, surface)
              /\ path \in Range(access_order)
              /\ path \notin DOMAIN cache)
             => /\ path \in DOMAIN cache'
                /\ (get(CacheState, path).result)' = surface
                /\ Count(access_order', path) = 1]_vars

\* C20: in every reachable state of a session of put, get and the art-mode
\* toggle's clear, current_memory equals the sum of the footprints of the
\* entries in the cache mapping; it is 0 when the mapping is empty.
C20_CounterMatchesFootprint == current_memory = Footprint(cache)

\* A worker's decode fails, or a worker whose decode failed ends its task.
FailedPrefetchStep(w) ==
    \/ WorkerDecode(w) /\ wsurface'[w] = None
    \/ WorkerFinally(w) /\ wsurface[w] = None

\* The background half of C19: a failed prefetch inserts nothing (the task
\* goes to its end without entering put), leaves the image list alone and
\* does not disturb the foreground.
PrefetchFailureIsSilent ==
    [][\A w \in Workers :
          FailedPrefetchStep(w) =>
             /\ UNCHANGED <<cacheVars, images, current_index, running, pc>>
             /\ wpc'[w] \in {"finally", "idle"}]_vars

\* C19: when the decode of the current image fails on the foreground path,
\* the image is dropped from the list, current_index is re-normalized and the
\* session continues with the cache unchanged; when a background prefetch
\* decode fails, nothing is inserted, the list is unchanged and no error
\* reaches the foreground.
C19_DecodeFailure ==
    /\ [][(Display /\ ~mosaic_mode /\ images[current_index + 1] \in bad) =>
             /\ images' = Pop(images, current_index)
             /\ current_index' \in 0..(Len(images') - 1)
             /\ running' /\ pc' = "display"
             /\ UNCHANGED cacheVars]_vars
    /\ PrefetchFailureIsSilent

\* C19, amended: as C19, but the session continues only when an image is
\* left; when the dropped image was the last one the list is empty, running
\* becomes false and the session ends.
C19_DecodeFailureOrEnd ==
    /\ [][(Display /\ ~mosaic_mode /\ images[current_index + 1] \in bad) =>
             /\ images' = Pop(images, current_index)
             /\ UNCHANGED cacheVars
             /\ IF images' = <<>>
                THEN ~running' /\ pc' = "done"
                ELSE /\ current_index' \in 0..(Len(images') - 1)
                     /\ running' /\ pc' = "display"]_vars
    /\ PrefetchFailureIsSilent

\* The prefetch of the undecodable b failed and its task is over, b was then
\* displayed as the last image left, and the session ended on its failure.
C19_Witness ==
    /\ bad = {"b"}
    /\ images = <<>>
    /\ pc = "done"
    /\ ~running
    /\ frames = 2
    /\ preload_queue = {}
    /\ \A w \in Workers : wpc[w] = "idle"

\* The steps main takes by itself, input aside.
ForegroundStep == Display \/ Preload \/ Tick \/ EndEvents

\* main is inside its loop (and within the frames that are followed).
InLoop ==
    \/ pc \in {"preload", "slideshow", "events"}
    \/ pc = "display" /\ frames < MaxFrames

C21_PoppedOnlyWhenUndecodable ==
    [][images' # images =>
          \/ EventDelete
          \/ EventMove
          \/ Display /\ ~mosaic_mode /\ images[current_index + 1] \in bad]_vars

\* C22: scheduling prefetch does not disturb the cache: a preload_images call
\* leaves the mapping, current_memory and the recency order of the cached
\* keys unchanged, so the image just displayed stays the most recently used
\* entry.
C22_PreloadLeavesCacheAlone ==
    [][Preload =>
          /\ UNCHANGED cacheVars
          /\ (drawn.surface # None =>
                access_order'[Len(access_order')] = images[current_index + 1])]_vars

\* main has left its wait loop.
MainLeftWait == main_pc \in {"join_gif", "join_key", "done", "exit"}

\* C23: in dippingbird.py the two stop signals agree and shutdown completes:
\* whenever the GIF thread has ended (window closed, or GIF file missing so
\* that stop_event is set), should_exit is true, the main wait loop
\* eventually exits and the key-sending thread eventually stops.
C23_ShutdownCompletes ==
    /\ [](gif_pc = "ended" => (stop_event /\ should_exit))
    /\ (gif_pc = "ended") ~> MainLeftWait
    /\ (gif_pc = "ended") ~> (key_pc = "ended")

====
